---- MODULE Spec2Model ----
(***************************************************************************)
(* Solar CRM (src/src/App.tsx): the single React component App, its state  *)
(* hooks and its event handlers, and the roof-area helper approxPolyArea.  *)
(*                                                                         *)
(* One action per user event.  An action holds the whole handler and the   *)
(* render that follows it, the effect of line 57 included.                 *)
(*                                                                         *)
(* Texts are sequences of one-character strings.  The sample cards' texts  *)
(* are abbreviated to their first characters.  Capacities (kWp) are        *)
(* counted in tenths of a kWp, so that the sample value 6.4 is the integer *)
(* 64.                                                                     *)
(***************************************************************************)
EXTENDS Integers, Sequences, FiniteSets

(***************************************************************************)
(* Bounds of the model.                                                    *)
(***************************************************************************)
\* user events explored from the initial render
MaxSteps == 3
\* significand width of the modelled floating-point numbers, in bits
Precision == 5
\* longest point sequence handed to approxPolyArea in SpecArea
MaxPathLen == 4
\* largest total area, in square metres, handed to the estimate in SpecEst
MaxArea == 120
\* most polygons on the map when the Roof area button is pressed in SpecRoof
MaxPolys == 3

(***************************************************************************)
(* Texts: toLowerCase, includes, trim.                                     *)
(***************************************************************************)
Upper == <<"A", "B", "G", "J", "K", "L", "M", "O", "S", "Z">>
Lower == <<"a", "b", "g", "j", "k", "l", "m", "o", "s", "z">>

toLowerCaseChar(ch) ==
    IF \E k \in 1..Len(Upper) : Upper[k] = ch
    THEN Lower[CHOOSE k \in 1..Len(Upper) : Upper[k] = ch]
    ELSE ch

toLowerCase(s) == [i \in 1..Len(s) |-> toLowerCaseChar(s[i])]

includes(hay, needle) ==
    \E i \in 0..(Len(hay) - Len(needle)) :
        SubSeq(hay, i + 1, i + Len(needle)) = needle

isSpace(ch) == ch = " "

trimStart(s) ==
    IF \A i \in 1..Len(s) : isSpace(s[i])
    THEN <<>>
    ELSE SubSeq(s, CHOOSE i \in 1..Len(s) :
                       /\ ~isSpace(s[i])
                       /\ \A j \in 1..(i - 1) : isSpace(s[j]),
                Len(s))

trimEnd(s) ==
    IF \A i \in 1..Len(s) : isSpace(s[i])
    THEN <<>>
    ELSE SubSeq(s, 1, CHOOSE i \in 1..Len(s) :
                          /\ ~isSpace(s[i])
                          /\ \A j \in (i + 1)..Len(s) : isSpace(s[j]))

trim(s) == trimEnd(trimStart(s))

(***************************************************************************)
(* Stages, sample cards.                                                   *)
(***************************************************************************)
STAGES == <<"lead", "survey", "proposal", "contract", "install", "commissioned">>

StageIds == {STAGES[i] : i \in 1..Len(STAGES)}

SAMPLE ==
    << [id |-> "c1", title |-> <<"A", "c", "m", "e">>, mode |-> "commercial",
        kWp |-> 1200, contact |-> <<"S", "a", "m">>, phone |-> <<"+", "4", "4">>,
        email |-> <<"s", "@", "a">>, address |-> <<"B", "a", "k", "e", "r">>,
        stage |-> "lead"],
       [id |-> "c2", title |-> <<"J", "o", "n", "e", "s">>, mode |-> "domestic",
        kWp |-> 64, contact |-> <<"K", "e", "r", "r", "y">>, phone |-> <<"+", "4", "4">>,
        email |-> <<"k", "@", "e">>, address |-> <<"D", "o", "w", "n">>,
        stage |-> "survey"],
       [id |-> "c3", title |-> <<"G", "y", "m">>, mode |-> "commercial",
        kWp |-> 850, contact |-> <<"L", "e", "e">>, phone |-> <<"+", "4", "4">>,
        email |-> <<"l", "@", "g">>, address |-> <<"O", "x", "f">>,
        stage |-> "proposal"] >>

VARIABLES mode, search, cards, selectedId, polys, messages, chatInput, aiLog,
          steps, lastOp, lastPatch, call

vars == <<mode, search, cards, selectedId, polys, messages, chatInput, aiLog,
          steps, lastOp, lastPatch, call>>

(***************************************************************************)
(* Values that stand for JavaScript's null and undefined.                  *)
(***************************************************************************)
Null == "<null>"
Undefined == "<undefined>"
NoCard == [null |-> TRUE]

(***************************************************************************)
(* Inputs of the user events.                                              *)
(***************************************************************************)
\* outcomes of Math.random().toString(36).slice(2, 8)
RandomIds == {"k3x9q2", "p7m0zd"}
\* values typed into the search box
SearchInputs == {<<>>, <<"A", "C">>}
\* values typed into a text field of the detail panel
TextInputs == {<<>>, <<"Z", "e", "d">>}
\* Number(e.target.value) of the kWp field, in tenths of a kWp
KWpInputs == {0, 75}
\* values typed into the chat box
ChatInputs == {<<>>, <<" ">>, <<" ", "h", "i", " ">>}
\* outcomes of Date.now()
NowValues == {1700000000}

TextFields == {"title", "contact", "address", "phone", "email"}

(***************************************************************************)
(* Derived values of a render: sel, filtered, the stage buttons.           *)
(***************************************************************************)
\* cards.find((c) => c.id === selectedId) || null
sel(cs, sid) ==
    IF \E i \in 1..Len(cs) : cs[i].id = sid
    THEN cs[CHOOSE i \in 1..Len(cs) :
                /\ cs[i].id = sid
                /\ \A j \in 1..(i - 1) : cs[j].id # sid]
    ELSE NoCard

\* sel?.mode
selMode(cs, sid) ==
    IF sel(cs, sid) = NoCard THEN Undefined ELSE sel(cs, sid).mode

\* useEffect(() => { if (sel?.mode) setMode(sel.mode); }, [sel?.mode]):
\* the mode after the render that follows a handler which left the mode at m
effectMode(m, prevSelMode, nextSelMode) ==
    IF nextSelMode # prevSelMode /\ nextSelMode # Undefined
    THEN nextSelMode
    ELSE m

\* the predicate of filtered: some searched text includes the search text
matches(c, q) ==
    \E v \in {c.title, c.contact, c.email, c.address} :
        includes(toLowerCase(v), toLowerCase(q))

\* the positions in cards of the cards the board shows
filtered(cs, q) == {i \in 1..Len(cs) : matches(cs[i], q)}

\* STAGES.filter(x => x.id !== c.stage).slice(0, 3): the stage buttons of a card
SelectSeq3(s) == SubSeq(s, 1, IF Len(s) < 3 THEN Len(s) ELSE 3)

stageButtons(stage) ==
    SelectSeq3(SelectSeq(STAGES, LAMBDA x : x # stage))

(***************************************************************************)
(* The handlers' state updates.                                            *)
(***************************************************************************)
\* a plausible slip of moveCard: the moved card filtered out of the list
moveCardFiltering(cs, cardId, stageId) ==
    SelectSeq(cs, LAMBDA c : c.id # cardId)

\* prev.map((c) => (c.id === cardId ? { ...c, stage: stageId } : c))
moveCard(cs, cardId, stageId) ==
    [i \in 1..Len(cs) |->
        IF cs[i].id = cardId THEN [cs[i] EXCEPT !.stage = stageId] ELSE cs[i]]

\* a plausible slip of createCard: the default capacities swapped
newCardSwapped(id, m) ==
    [id |-> id,
     title |-> IF m = "domestic"
               THEN <<"N", "e", "w", " ", "R">>
               ELSE <<"N", "e", "w", " ", "B">>,
     mode |-> m,
     kWp |-> IF m = "domestic" THEN 500 ELSE 40,
     contact |-> <<>>, phone |-> <<>>, email |-> <<>>, address |-> <<>>,
     stage |-> "lead"]

\* the newCard of createCard
newCard(id, m) ==
    [id |-> id,
     title |-> IF m = "domestic"
               THEN <<"N", "e", "w", " ", "R">>
               ELSE <<"N", "e", "w", " ", "B">>,
     mode |-> m,
     kWp |-> IF m = "domestic" THEN 40 ELSE 500,
     contact |-> <<>>, phone |-> <<>>, email |-> <<>>, address |-> <<>>,
     stage |-> "lead"]

\* a plausible slip of createCard: the new card selected but never inserted
createCardNotInserting(cs, id, m) == cs

\* setCards((c) => [newCard, ...c])
createCard(cs, id, m) == <<newCard(id, m)>> \o cs

\* { ...c, ...patch }
merge(c, patch) ==
    [f \in DOMAIN c \cup DOMAIN patch |->
        IF f \in DOMAIN patch THEN patch[f] ELSE c[f]]

\* updateSelected: nothing without a selected card, else the merge into
\* every card whose id is the selected card's
updateSelected(cs, sid, patch) ==
    IF sel(cs, sid) = NoCard
    THEN cs
    ELSE [i \in 1..Len(cs) |->
            IF cs[i].id = sel(cs, sid).id THEN merge(cs[i], patch) ELSE cs[i]]

(***************************************************************************)
(* Numbers.  A JavaScript number is a binary floating-point number: every  *)
(* +, - and * rounds its exact result to a fixed count of significant      *)
(* bits, ties to even.  Fl is that rounding with a significand of          *)
(* Precision bits.  Lengths are counted in metres and areas in square      *)
(* metres; latitudes and longitudes are counted in ticks, one tick being   *)
(* the angle that subtends one metre on the sphere of radius R, so that    *)
(* (ticks * PI / 180) * R is the tick count.  The points of the model lie  *)
(* on even ticks within a few metres of latitude 0, where the cosine of    *)
(* the latitude rounds to 1.                                               *)
(***************************************************************************)
RECURSIVE bitLength(_)
bitLength(a) == IF a = 0 THEN 0 ELSE 1 + bitLength(a \div 2)

RECURSIVE pow2(_)
pow2(n) == IF n = 0 THEN 1 ELSE 2 * pow2(n - 1)

abs(v) == IF v < 0 THEN -v ELSE v

Fl(v) ==
    LET a == abs(v)
        sh == bitLength(a) - Precision
    IN  IF sh <= 0
        THEN v
        ELSE LET q == a \div pow2(sh)
                 r == a % pow2(sh)
                 half == pow2(sh - 1)
                 up == r > half \/ (r = half /\ q % 2 = 1)
                 m == (IF up THEN q + 1 ELSE q) * pow2(sh)
             IN  IF v < 0 THEN -m ELSE m

FlAdd(a, b) == Fl(a + b)
FlSub(a, b) == Fl(a - b)
FlMul(a, b) == Fl(a * b)

\* Math.cos(p.lat * Math.PI / 180)
cosLat(lat) == 1

\* toXY of approxPolyArea
toXY(p) == [x |-> FlMul(Fl(p.lng), cosLat(p.lat)), y |-> Fl(p.lat)]

\* pts[i].x * pts[j].y - pts[j].x * pts[i].y of round i of the loop, j the
\* next position, the first after the last
term(pts, i) ==
    LET j == (i % Len(pts)) + 1
    IN  FlSub(FlMul(pts[i].x, pts[j].y), FlMul(pts[j].x, pts[i].y))

\* the value of sum after the first k rounds of the loop of approxPolyArea
RECURSIVE shoelace(_, _)
shoelace(pts, k) ==
    IF k = 0 THEN 0 ELSE FlAdd(shoelace(pts, k - 1), term(pts, k))

\* a plausible slip of approxPolyArea: the sign of the sum kept
approxPolyAreaSigned(path) ==
    IF Len(path) < 3
    THEN 0
    ELSE LET pts == [i \in 1..Len(path) |-> toXY(path[i])]
         IN  shoelace(pts, Len(pts)) \div 2

approxPolyArea(path) ==
    IF Len(path) < 3
    THEN 0
    ELSE LET pts == [i \in 1..Len(path) |-> toXY(path[i])]
         IN  abs(shoelace(pts, Len(pts))) \div 2

\* a plausible slip of the total: a polygon drawn twice counted once
RECURSIVE reduceAreaDistinct(_)
reduceAreaDistinct(ps) ==
    IF ps = <<>>
    THEN 0
    ELSE LET front == SubSeq(ps, 1, Len(ps) - 1)
         IN  IF \E i \in 1..Len(front) : front[i] = ps[Len(ps)]
             THEN reduceAreaDistinct(front)
             ELSE FlAdd(reduceAreaDistinct(front), approxPolyArea(ps[Len(ps)].path))

\* polys.reduce((acc, p) => acc + approxPolyArea(p.path), 0)
RECURSIVE reduceArea(_)
reduceArea(ps) ==
    IF ps = <<>>
    THEN 0
    ELSE FlAdd(reduceArea(SubSeq(ps, 1, Len(ps) - 1)),
               approxPolyArea(ps[Len(ps)].path))

\* (num / den).toFixed(1) of a non-negative number, in tenths
toFixed1(num, den) == (20 * num + den) \div (2 * den)

\* Math.floor(area / 1.8)
estPanels(area) == (10 * area) \div 18

\* (estPanels * 0.42).toFixed(1), in tenths of a kWp
estkWp(panels) == toFixed1(42 * panels, 100)

(***************************************************************************)
(* Lines of the AI log.                                                    *)
(***************************************************************************)
\* "Draw at least one polygon on the map."
promptLine == [kind |-> "prompt"]

\* a plausible slip of the summary: the capacity taken from the unrounded
\* area, (area / 1.8 * 0.42).toFixed(1)
roofLineFromArea(area) ==
    [kind |-> "roof", area |-> toFixed1(area, 1),
     panels |-> estPanels(area), kWp |-> toFixed1(42 * area, 18)]

\* `Roof area ~ ${area.toFixed(1)} m2 -> ~${estPanels} panels -> ~${estkWp} kWp`
roofLine(area) ==
    [kind |-> "roof", area |-> toFixed1(area, 1),
     panels |-> estPanels(area), kWp |-> estkWp(estPanels(area))]

\* the score of aiLeadScore, from a capacity in tenths of a kWp
leadScore(c) ==
    LET hundredths == c.kWp * (IF c.mode = "commercial" THEN 12 ELSE 10)
                      + (IF c.email # <<>> THEN 1000 ELSE 0)
                      + (IF c.phone # <<>> THEN 1000 ELSE 0)
        rounded == (hundredths + 50) \div 100
    IN  IF rounded < 100 THEN rounded ELSE 100

\* `Lead score for ${sel.title}: ${score}/100`
scoreLine(c) == [kind |-> "score", title |-> c.title, score |-> leadScore(c)]

\* the proposal text of aiProposalOutline
proposalLine(c) ==
    [kind |-> "proposal", title |-> c.title,
     size |-> IF c.kWp = 0 THEN [tbd |-> TRUE] ELSE [kWp |-> c.kWp],
     mode |-> c.mode,
     address |-> IF c.address = <<>> THEN <<"T", "B", "D">> ELSE c.address,
     generation |-> c.kWp * 90]

(***************************************************************************)
(* Polygons the user can draw, as point sequences (lat, lng in ticks).     *)
(***************************************************************************)
pt(lat, lng) == [lat |-> lat, lng |-> lng]

PathPool ==
    { << pt(0, 0), pt(4, 0) >>,
      << pt(0, 0), pt(0, 2), pt(2, 0) >>,
      << pt(0, 0), pt(0, 4), pt(8, 0) >>,
      << pt(0, 0), pt(0, 10), pt(10, 8) >> }

(***************************************************************************)
(* The state after construction: the first render and its effect.          *)
(***************************************************************************)
NoCall == [fn |-> "none"]
NoPatch == <<>>

InitCards ==
    /\ search = <<>>
    /\ cards = SAMPLE
    /\ selectedId = (IF Len(SAMPLE) > 0 THEN SAMPLE[1].id ELSE Null)
    /\ mode = effectMode("domestic", Undefined, selMode(cards, selectedId))
    /\ messages = << [id |-> 1, from |-> "Kerry",
                      text |-> <<"H", "i", "!">>] >>
    /\ chatInput = <<>>
    /\ aiLog = <<>>

InitApp ==
    /\ InitCards
    /\ polys = <<>>

Init ==
    /\ InitApp
    /\ steps = 0
    /\ lastOp = "render"
    /\ lastPatch = NoPatch
    /\ call = NoCall

\* what every user event does besides its handler
EventWith(name, patch) ==
    /\ steps < MaxSteps
    /\ steps' = steps + 1
    /\ lastOp' = name
    /\ lastPatch' = patch
    /\ call' = call

Event(name) == EventWith(name, NoPatch)

(***************************************************************************)
(* The user events.                                                        *)
(***************************************************************************)
\* the domestic/commercial checkbox: onChange with the flipped checked state
ToggleMode ==
    /\ Event("toggleMode")
    /\ LET checked == ~(mode = "commercial")
       IN  mode' = IF checked THEN "commercial" ELSE "domestic"
    /\ UNCHANGED <<search, cards, selectedId, polys, messages, chatInput, aiLog>>

\* the search box
SetSearch ==
    \E v \in SearchInputs :
        /\ v # search
        /\ Event("setSearch")
        /\ search' = v
        /\ UNCHANGED <<mode, cards, selectedId, polys, messages, chatInput, aiLog>>

\* the New Home / New Biz button
CreateCard ==
    \E id \in RandomIds :
        /\ Event("createCard")
        /\ cards' = createCard(cards, id, mode)
        /\ selectedId' = id
        /\ mode' = effectMode(mode, selMode(cards, selectedId),
                              selMode(cards', selectedId'))
        /\ UNCHANGED <<search, polys, messages, chatInput, aiLog>>

\* a click on a card of the board
ClickCard ==
    \E i \in filtered(cards, search) :
        /\ Event("clickCard")
        /\ selectedId' = cards[i].id
        /\ mode' = effectMode(mode, selMode(cards, selectedId),
                              selMode(cards, selectedId'))
        /\ UNCHANGED <<search, cards, polys, messages, chatInput, aiLog>>

\* a click on one of the stage buttons of a card of the board
ClickStageButton ==
    \E i \in filtered(cards, search) :
        \E b \in 1..Len(stageButtons(cards[i].stage)) :
            /\ Event("moveCard")
            /\ cards' = moveCard(cards, cards[i].id, stageButtons(cards[i].stage)[b])
            /\ mode' = effectMode(mode, selMode(cards, selectedId),
                                  selMode(cards', selectedId))
            /\ UNCHANGED <<search, selectedId, polys, messages, chatInput, aiLog>>

\* typing into a field of the detail panel
EditField ==
    \E f \in TextFields \cup {"kWp"} :
        \E v \in (IF f = "kWp" THEN KWpInputs ELSE TextInputs) :
            /\ EventWith("updateSelected", [x \in {f} |-> v])
            /\ cards' = updateSelected(cards, selectedId, [x \in {f} |-> v])
            /\ mode' = effectMode(mode, selMode(cards, selectedId),
                                  selMode(cards', selectedId))
            /\ UNCHANGED <<search, selectedId, polys, messages, chatInput, aiLog>>

\* a plausible slip of onPolygonComplete: the new polygon put first
onPolygonCompletePrepending(ps, path) == <<[path |-> path]>> \o ps

\* setPolys((ps) => [...ps, { path }])
onPolygonComplete(ps, path) == Append(ps, [path |-> path])

\* the drawing manager completes a polygon
OnPolygonComplete ==
    \E path \in PathPool :
        /\ Event("onPolygonComplete")
        /\ polys' = onPolygonComplete(polys, path)
        /\ UNCHANGED <<mode, search, cards, selectedId, messages, chatInput, aiLog>>

\* the Clear polygons button
ClearPolygons ==
    /\ Event("clearPolygons")
    /\ polys' = <<>>
    /\ UNCHANGED <<mode, search, cards, selectedId, messages, chatInput, aiLog>>

\* typing into the chat box
SetChatInput ==
    \E v \in ChatInputs :
        /\ v # chatInput
        /\ Event("setChatInput")
        /\ chatInput' = v
        /\ UNCHANGED <<mode, search, cards, selectedId, polys, messages, aiLog>>

\* the Send button
AddChatMessage ==
    \E now \in NowValues :
        /\ Event("addChatMessage")
        /\ IF trim(chatInput) = <<>>
           THEN UNCHANGED <<messages, chatInput>>
           ELSE /\ messages' = Append(messages, [id |-> now, from |-> "You",
                                                 text |-> trim(chatInput)])
                /\ chatInput' = <<>>
        /\ UNCHANGED <<mode, search, cards, selectedId, polys, aiLog>>

\* the Lead score button
AiLeadScore ==
    /\ Event("aiLeadScore")
    /\ aiLog' = IF sel(cards, selectedId) = NoCard
                THEN aiLog
                ELSE <<scoreLine(sel(cards, selectedId))>> \o aiLog
    /\ UNCHANGED <<mode, search, cards, selectedId, polys, messages, chatInput>>

\* a plausible slip of aiRoofAreaFromPolys: no test for the empty set
aiRoofAreaFromPolysUnguarded(ps, log) ==
    <<roofLine(reduceArea(ps))>> \o log

\* the log after aiRoofAreaFromPolys
aiRoofAreaFromPolys(ps, log) ==
    IF Len(ps) = 0
    THEN <<promptLine>> \o log
    ELSE <<roofLine(reduceArea(ps))>> \o log

\* the Roof area button
AiRoofArea ==
    /\ Event("aiRoofAreaFromPolys")
    /\ aiLog' = aiRoofAreaFromPolys(polys, aiLog)
    /\ UNCHANGED <<mode, search, cards, selectedId, polys, messages, chatInput>>

\* the Proposal button
AiProposalOutline ==
    /\ Event("aiProposalOutline")
    /\ aiLog' = IF sel(cards, selectedId) = NoCard
                THEN aiLog
                ELSE <<proposalLine(sel(cards, selectedId))>> \o aiLog
    /\ UNCHANGED <<mode, search, cards, selectedId, polys, messages, chatInput>>

Next ==
    \/ ToggleMode
    \/ SetSearch
    \/ CreateCard
    \/ ClickCard
    \/ ClickStageButton
    \/ EditField
    \/ OnPolygonComplete
    \/ ClearPolygons
    \/ SetChatInput
    \/ AddChatMessage
    \/ AiLeadScore
    \/ AiRoofArea
    \/ AiProposalOutline

Spec == Init /\ [][Next]_vars

(***************************************************************************)
(* SpecRoof: the Roof area button, pressed with any polygons on the map.   *)
(***************************************************************************)
PolyLists ==
    UNION {[1..n -> {[path |-> q] : q \in PathPool}] : n \in 0..MaxPolys}

InitRoof ==
    /\ InitCards
    /\ polys \in PolyLists
    /\ steps = 0
    /\ lastOp = "render"
    /\ lastPatch = NoPatch
    /\ call = NoCall

SpecRoof == InitRoof /\ [][AiRoofArea]_vars

(***************************************************************************)
(* SpecArea: approxPolyArea, applied to any point sequence.                *)
(***************************************************************************)
PointPool ==
    {pt(0, 0), pt(4, 0), pt(2, 0), pt(0, 4), pt(0, 10), pt(10, 8)}

Paths == UNION {[1..n -> PointPool] : n \in 0..MaxPathLen}

InitArea ==
    /\ InitApp
    /\ steps = 0
    /\ lastOp = "render"
    /\ lastPatch = NoPatch
    /\ call \in {[fn |-> "approxPolyArea", arg |-> q, done |-> FALSE, out |-> 0] :
                    q \in Paths}

CallArea ==
    /\ call.fn = "approxPolyArea"
    /\ ~call.done
    /\ call' = [call EXCEPT !.done = TRUE, !.out = approxPolyArea(call.arg)]
    /\ UNCHANGED <<mode, search, cards, selectedId, polys, messages, chatInput,
                   aiLog, steps, lastOp, lastPatch>>

SpecArea == InitArea /\ [][CallArea]_vars

(***************************************************************************)
(* SpecEst: the summary line of the Roof area button, for any total area.  *)
(***************************************************************************)
InitEst ==
    /\ InitApp
    /\ steps = 0
    /\ lastOp = "render"
    /\ lastPatch = NoPatch
    /\ call \in {[fn |-> "roofLine", arg |-> a, done |-> FALSE, out |-> promptLine] :
                    a \in 0..MaxArea}

CallRoofLine ==
    /\ call.fn = "roofLine"
    /\ ~call.done
    /\ call' = [call EXCEPT !.done = TRUE, !.out = roofLine(call.arg)]
    /\ UNCHANGED <<mode, search, cards, selectedId, polys, messages, chatInput,
                   aiLog, steps, lastOp, lastPatch>>

SpecEst == InitEst /\ [][CallRoofLine]_vars

(***************************************************************************)
(* Claims.                                                                 *)
(***************************************************************************)
ids(cs) == {cs[i].id : i \in 1..Len(cs)}

\* the stages a card in one of the stages S can be put into by one more click
oneMoreClick(S) ==
    S \cup {stageButtons(s)[b] : s \in S, b \in 1..3}

\* the stages a card in stage s can be brought to by clicks on its stage buttons
RECURSIVE closure(_)
closure(S) == IF oneMoreClick(S) = S THEN S ELSE closure(oneMoreClick(S))

\* C1: from whatever stage a card of the list is in, every one of the six
\* stages can be reached by a finite sequence of clicks on the stage buttons
\* the board offers for that card.
C1_AnyStageReachable ==
    \A i \in 1..Len(cards) : closure({cards[i].stage}) = StageIds

\* C2: no two cards of the list have the same id.
C2_UniqueIds ==
    \A i, j \in 1..Len(cards) : i # j => cards[i].id # cards[j].id

\* C3: the Roof area button prepends exactly the prompt when there is no
\* polygon, and otherwise exactly one numeric summary and never the prompt,
\* also when every polygon has fewer than three points.
C3_PromptOnlyWhenEmpty ==
    [][lastOp' = "aiRoofAreaFromPolys" /\ steps' = steps + 1 =>
         /\ Len(aiLog') = Len(aiLog) + 1
         /\ Tail(aiLog') = aiLog
         /\ polys = <<>> => Head(aiLog') = promptLine
         /\ polys # <<>> =>
              /\ Head(aiLog') # promptLine
              /\ Head(aiLog').kind = "roof"
              /\ Head(aiLog').area >= 0
              /\ Head(aiLog').panels >= 0
              /\ Head(aiLog').kWp >= 0]_vars

C3_Witness ==
    /\ lastOp = "aiRoofAreaFromPolys"
    /\ polys # <<>>
    /\ \A i \in 1..Len(polys) : Len(polys[i].path) < 3
    /\ Head(aiLog).kind = "roof"
    /\ Head(aiLog).area = 0

\* the position of the selected card in the list, 0 when there is none
selIndex(cs, sid) ==
    IF \E i \in 1..Len(cs) : cs[i].id = sid
    THEN CHOOSE i \in 1..Len(cs) :
             /\ cs[i].id = sid
             /\ \A j \in 1..(i - 1) : cs[j].id # sid
    ELSE 0

\* C4: an updateSelected changes at most the selected card, and in it only
\* the patched field; every other card, the order and the length of the list
\* stay as they were.
C4_UpdateOnlySelected ==
    [][lastOp' = "updateSelected" /\ steps' = steps + 1 =>
         LET k == selIndex(cards, selectedId)
         IN  /\ Len(cards') = Len(cards)
             /\ \A i \in 1..Len(cards) : i # k => cards'[i] = cards[i]
             /\ k # 0 =>
                  \A g \in DOMAIN cards[k] :
                      cards'[k][g] = (IF g \in DOMAIN lastPatch'
                                      THEN lastPatch'[g]
                                      ELSE cards[k][g])]_vars

\* C5: no step removes a card id from the list; the list grows by exactly one
\* card on createCard and keeps its length on every other operation.
C5_NoCardDeleted ==
    [][/\ ids(cards) \subseteq ids(cards')
       /\ Len(cards') = Len(cards) + (IF lastOp' = "createCard" /\ steps' = steps + 1
                                      THEN 1 ELSE 0)]_vars

C5_Witness ==
    /\ Len(cards) = Len(SAMPLE) + 2
    /\ lastOp = "moveCard"

\* C6: completing a drawing appends exactly one polygon at the end and keeps
\* the earlier ones in place; Clear polygons empties the set; no other
\* operation changes it.
C6_PolysAppendOnly ==
    [][/\ lastOp' = "onPolygonComplete" /\ steps' = steps + 1 =>
            /\ Len(polys') = Len(polys) + 1
            /\ SubSeq(polys', 1, Len(polys)) = polys
            /\ polys'[Len(polys')].path \in PathPool
       /\ lastOp' = "clearPolygons" /\ steps' = steps + 1 => polys' = <<>>
       /\ ~(steps' = steps + 1 /\ lastOp' \in {"onPolygonComplete", "clearPolygons"}) =>
            polys' = polys]_vars

C6_Witness ==
    /\ lastOp = "onPolygonComplete"
    /\ Len(polys) = 2
    /\ polys[1] # polys[2]

\* C7: the card made by createCard is first in the list, in stage lead, with
\* the toggle's mode, capacity 4 (domestic) or 50 (commercial) kWp and empty
\* contact, phone, email and address, and it is the selected card.
C7_CreatedCardDefaults ==
    [][lastOp' = "createCard" /\ steps' = steps + 1 =>
         /\ Tail(cards') = cards
         /\ Head(cards').stage = STAGES[1]
         /\ Head(cards').mode = mode
         /\ mode' = mode
         /\ Head(cards').kWp = (IF mode = "domestic" THEN 40 ELSE 500)
         /\ Head(cards').contact = <<>>
         /\ Head(cards').phone = <<>>
         /\ Head(cards').email = <<>>
         /\ Head(cards').address = <<>>
         /\ selectedId' = Head(cards').id
         /\ sel(cards', selectedId') = Head(cards')]_vars

C7_Witness ==
    /\ lastOp = "createCard"
    /\ Head(cards).mode = "domestic"
    /\ Head(cards).kWp = 40
    /\ sel(cards, selectedId) = Head(cards)

\* C8: the summary of a total area reports floor(area / 1.8) panels and that
\* panel count times 0.42, to the nearest tenth, as capacity; 100.0 square
\* metres give 55 panels and 23.1 kWp.
C8_PanelsAndCapacity ==
    (call.fn = "roofLine" /\ call.done) =>
        LET a == call.arg
            n == call.out.panels
        IN  /\ 18 * n <= 10 * a
            /\ 10 * a < 18 * (n + 1)
            /\ 10 * call.out.kWp - 42 * n <= 5
            /\ 42 * n - 10 * call.out.kWp < 5
            /\ a = 100 => n = 55 /\ call.out.kWp = 231

C8_Witness ==
    /\ call.fn = "roofLine"
    /\ call.done
    /\ call.arg = 100
    /\ call.out.panels = 55
    /\ call.out.kWp = 231

\* the exact (unrounded) sum of the polygons' areas
RECURSIVE plainSum(_)
plainSum(ps) ==
    IF ps = <<>>
    THEN 0
    ELSE plainSum(SubSeq(ps, 1, Len(ps) - 1)) + approxPolyArea(ps[Len(ps)].path)

\* no addition of the running total is rounded
additionsExact(ps) ==
    \A k \in 1..Len(ps) : Fl(plainSum(SubSeq(ps, 1, k))) = plainSum(SubSeq(ps, 1, k))

swap(ps, i, j) == [ps EXCEPT ![i] = ps[j], ![j] = ps[i]]

reported(ps) == roofLine(reduceArea(ps)).area

\* C9 as stated: the reported total is the sum of the polygons' own areas: it
\* does not depend on their order, and one more polygon raises it by exactly
\* that polygon's area.
C9_TotalIsSumOfAreas ==
    (lastOp = "aiRoofAreaFromPolys" /\ polys # <<>>) =>
        /\ Head(aiLog).area = toFixed1(plainSum(polys), 1)
        /\ \A i, j \in 1..Len(polys) : reported(swap(polys, i, j)) = Head(aiLog).area
        /\ \A q \in PathPool :
               reported(Append(polys, [path |-> q]))
                   = Head(aiLog).area + toFixed1(approxPolyArea(q), 1)

\* C9 as amended: the reported total is the left-to-right sum of the polygons'
\* areas, each addition rounded as a floating-point addition is.  A polygon
\* with fewer than three points adds exactly 0, two polygons give the same
\* total in either order, the same polygon drawn twice gives twice its area,
\* and whenever no addition is rounded the total is the exact sum.
C9_TotalIsRoundedSum ==
    (lastOp = "aiRoofAreaFromPolys" /\ polys # <<>>) =>
        /\ additionsExact(polys) => Head(aiLog).area = toFixed1(plainSum(polys), 1)
        /\ Head(aiLog).area
               = reported(SelectSeq(polys, LAMBDA q : Len(q.path) >= 3))
        /\ Len(polys) = 2 => Head(aiLog).area = reported(swap(polys, 1, 2))
        /\ (Len(polys) = 2 /\ polys[1] = polys[2]) =>
               Head(aiLog).area = 2 * toFixed1(approxPolyArea(polys[1].path), 1)

C9_Witness ==
    /\ lastOp = "aiRoofAreaFromPolys"
    /\ Len(polys) = 3
    /\ additionsExact(polys)
    /\ \E i \in 1..3 : Len(polys[i].path) < 3
    /\ \E i, j \in 1..3 : i # j /\ polys[i] = polys[j] /\ Len(polys[i].path) >= 3
    /\ Head(aiLog).area = toFixed1(plainSum(polys), 1)
    /\ Head(aiLog).area > 0

rotate(path, r) ==
    [i \in 1..Len(path) |-> path[((i + r - 1) % Len(path)) + 1]]

reverse(path) == [i \in 1..Len(path) |-> path[Len(path) + 1 - i]]

\* the point sequences the claim compares with path: its rotations, its reverse
rearranged(path) ==
    {rotate(path, r) : r \in 1..(Len(path) - 1)} \cup {reverse(path)}

\* no addition of the loop of approxPolyArea is rounded
loopExact(path) ==
    LET pts == [i \in 1..Len(path) |-> toXY(path[i])]
    IN  \A k \in 1..Len(pts) :
            Fl(shoelace(pts, k - 1) + term(pts, k)) = shoelace(pts, k - 1) + term(pts, k)

\* C10 as stated: the area is non-negative and every rotation and the reverse
\* of a sequence of at least three points have the same area.
C10_RotationReversalInvariant ==
    (call.fn = "approxPolyArea" /\ call.done /\ Len(call.arg) >= 3) =>
        /\ call.out >= 0
        /\ \A q \in rearranged(call.arg) : approxPolyArea(q) = call.out

\* C10 as amended: the area is non-negative; the reverse of a three-point
\* sequence has the same area; a rotation or the reverse of a longer sequence
\* has the same area whenever no addition of either shoelace sum is rounded.
C10_InvariantUpToRounding ==
    (call.fn = "approxPolyArea" /\ call.done /\ Len(call.arg) >= 3) =>
        /\ call.out >= 0
        /\ Len(call.arg) = 3 => approxPolyArea(reverse(call.arg)) = call.out
        /\ \A q \in rearranged(call.arg) :
               (loopExact(call.arg) /\ loopExact(q)) => approxPolyArea(q) = call.out

C10_Witness ==
    /\ call.fn = "approxPolyArea"
    /\ call.done
    /\ Len(call.arg) = 4
    /\ call.out > 0
    /\ loopExact(call.arg)
    /\ \A q \in rearranged(call.arg) : loopExact(q) /\ approxPolyArea(q) = call.out
    /\ \E q \in rearranged(call.arg) : q # call.arg

(***************************************************************************)
(* C11: after any sequence of card creations, card clicks, field edits and *)
(* stage moves (and of every other event of the page) the selected id is   *)
(* not null and is the id of a card of the list, so that sel is a card:    *)
(* the detail panel, the lead score and the proposal outline have a card   *)
(* to act on.                                                              *)
(***************************************************************************)
C11_SelectedCardInList ==
    /\ selectedId # Null
    /\ \E i \in 1..Len(cards) : cards[i].id = selectedId
    /\ sel(cards, selectedId) # NoCard
    /\ sel(cards, selectedId).id = selectedId

\* a card created, another card clicked, and that card edited
C11_Witness ==
    /\ lastOp = "updateSelected"
    /\ Len(cards) = Len(SAMPLE) + 1
    /\ cards[1].id \in RandomIds
    /\ selectedId = SAMPLE[2].id
    /\ sel(cards, selectedId).title = <<"Z", "e", "d">>

====
